---- MODULE Spec2Model ----
(***************************************************************************)
(* Model of src/script.js: the non-transitive dice game with HMAC          *)
(* commit-reveal throws.  One action per prompt handler: an action reads   *)
(* one line at the pending prompt and runs the code up to the next prompt, *)
(* to the end of play(), or to the point where the process stops.          *)
(*                                                                         *)
(* crypto.randomBytes(32) is modelled as a source of fresh values and      *)
(* HMAC-SHA3-256 as an injective pairing of key and message (collisions    *)
(* of 256-bit values are not modelled).                                    *)
(***************************************************************************)
EXTENDS Integers, Sequences, FiniteSets

VARIABLES
  argv,               \* process.argv.slice(2): the command-line arguments, each a string
  dice,               \* Game.dice: sequence of face sequences (Dice.faces); empty before main() built the Game
  secretKey,          \* FairRandomGenerator.secretKey (NULL before the first generateRandom)
  randomBytesCalls,   \* number of crypto.randomBytes(32) calls made so far
  pc,                 \* where the process is: which prompt is pending, or how it ended
  userGoesFirst,      \* play(): const userGoesFirst
  userDiceIndex,      \* play(): const userDiceIndex of the current loop iteration
  computerDiceIndex,  \* play(): const computerDiceIndex of the current loop iteration
  randomNumber,       \* committed value of the pending commitment (randomNumber / computerThrow / userThrow)
  hmac,               \* digest of the pending commitment (hmac / computerHMAC / userHMAC)
  computerRoll,       \* play(): const computerRoll of the current loop iteration
  out,                \* the terminal transcript: console.log lines, prompts and the lines read
  reads               \* number of lines read from the terminal

vars == <<argv, dice, secretKey, randomBytesCalls, pc, userGoesFirst, userDiceIndex,
          computerDiceIndex, randomNumber, hmac, computerRoll, out, reads>>

----------------------------------------------------------------------------
(* Bounds *)

\* lines the player may type before the terminal input ends
MaxReads == 4

\* most arguments on a command line whose parsing is examined
MaxArgs == 3

----------------------------------------------------------------------------
(* Values *)

NULL == 0          \* this.secretKey = null
NONE == -1         \* a const of play() that is not in scope / not yet bound
UNSET == "unset"   \* userGoesFirst before determineFirstMove returned

Digits == <<"0", "1", "2", "3", "4", "5", "6", "7", "8", "9">>

IsDigit(c) == \E i \in 1..10 : Digits[i] = c

DigitVal(c) == (CHOOSE i \in 1..10 : Digits[i] = c) - 1

\* Number.prototype.toString(): the decimal string of a non-negative integer
RECURSIVE ToString(_)
ToString(n) ==
  IF n < 10 THEN <<Digits[n + 1]>>
  ELSE ToString(n \div 10) \o <<Digits[(n % 10) + 1]>>

\* parseInt step 1: drop leading white space
RECURSIVE TrimLeft(_)
TrimLeft(s) ==
  IF s # <<>> /\ Head(s) = " " THEN TrimLeft(Tail(s)) ELSE s

\* parseInt: the longest prefix made of decimal digits
RECURSIVE DigitPrefix(_)
DigitPrefix(s) ==
  IF s # <<>> /\ IsDigit(Head(s)) THEN <<Head(s)>> \o DigitPrefix(Tail(s)) ELSE <<>>

RECURSIVE DigitsValue(_)
DigitsValue(ds) ==
  IF ds = <<>> THEN 0
  ELSE 10 * DigitsValue(SubSeq(ds, 1, Len(ds) - 1)) + DigitVal(ds[Len(ds)])

\* parseInt(line, 10): [nan |-> TRUE] is NaN
parseInt(line) ==
  LET t    == TrimLeft(line)
      neg  == t # <<>> /\ Head(t) = "-"
      body == IF t # <<>> /\ Head(t) \in {"-", "+"} THEN Tail(t) ELSE t
      ds   == DigitPrefix(body)
  IN  IF ds = <<>> THEN [nan |-> TRUE, val |-> 0]
      ELSE [nan |-> FALSE, val |-> (IF neg THEN 0 - DigitsValue(ds) ELSE DigitsValue(ds))]

isNaN(n) == n.nan

----------------------------------------------------------------------------
(* FairRandomGenerator *)

\* generateHMAC(message): HMAC-SHA3-256 under key of message.toString()
generateHMAC(key, message) == [key |-> key, msg |-> ToString(message)]

\* generateUniformRandom(max): the values crypto.randomInt(0, max) can return
generateUniformRandom(max) == 0 .. (max - 1)

\* generateRandom with the HMAC computed before the new key is installed
generateRandom_StaleKeyHmac(oldKey, freshKey, num) ==
  [secretKey |-> freshKey, randomNumber |-> num, hmac |-> generateHMAC(oldKey, num)]

\* generateRandom that creates a key only when the generator has none
generateRandom_KeepKey(oldKey, freshKey, num) ==
  LET k == IF oldKey = NULL THEN freshKey ELSE oldKey
  IN  [secretKey |-> k, randomNumber |-> num, hmac |-> generateHMAC(k, num)]

\* generateRandom that keeps the new key in a local and leaves this.secretKey alone
generateRandom_KeyNotStored(oldKey, freshKey, num) ==
  [secretKey |-> oldKey, randomNumber |-> num, hmac |-> generateHMAC(freshKey, num)]

\* generateRandom(max), given the generator's key before the call, the bytes
\* crypto.randomBytes returns and the number generateUniformRandom(max) returns
generateRandom(oldKey, freshKey, num) ==
  [secretKey |-> freshKey, randomNumber |-> num, hmac |-> generateHMAC(freshKey, num)]

\* getSecretKey(): the hex string of the key
getSecretKey(key) == <<"hex", key>>

\* the key a hex string printed by getSecretKey decodes to
FromHex(h) == h[2]

----------------------------------------------------------------------------
(* ProbabilityCalculator: a probability wins/total is kept as <<wins, total>> *)

\* calculateProbability that counts a tie as a win
calculateProbability_TiesWin(dice1, dice2) ==
  LET wins == Cardinality({p \in (1..Len(dice1)) \X (1..Len(dice2)) :
                             dice1[p[1]] >= dice2[p[2]]})
  IN  <<wins, Len(dice1) * Len(dice2)>>

\* lines 84-92
calculateProbability(dice1, dice2) ==
  LET wins == Cardinality({p \in (1..Len(dice1)) \X (1..Len(dice2)) :
                             dice1[p[1]] > dice2[p[2]]})
  IN  <<wins, Len(dice1) * Len(dice2)>>

\* calculate that computes the diagonal like every other entry
calculate_ComputedDiagonal(ds) ==
  [i \in 1..Len(ds) |->
     [j \in 1..Len(ds) |-> calculateProbability(ds[i], ds[j])]]

\* lines 69-82; 0.5 is kept as <<1, 2>>
calculate(ds) ==
  [i \in 1..Len(ds) |->
     [j \in 1..Len(ds) |->
        IF i = j THEN <<1, 2>> ELSE calculateProbability(ds[i], ds[j])]]

----------------------------------------------------------------------------
(* DiceParser *)

IsSpace(c) == c = " "

RECURSIVE TrimRight(_)
TrimRight(s) ==
  IF s # <<>> /\ IsSpace(s[Len(s)]) THEN TrimRight(SubSeq(s, 1, Len(s) - 1)) ELSE s

\* the part of s before its first comma
RECURSIVE BeforeComma(_)
BeforeComma(s) ==
  IF s = <<>> \/ Head(s) = "," THEN <<>> ELSE <<Head(s)>> \o BeforeComma(Tail(s))

\* arg.split(","): the empty string splits into one empty token
RECURSIVE Split(_)
Split(s) ==
  LET first == BeforeComma(s)
  IN  IF Len(first) = Len(s) THEN <<first>>
      ELSE <<first>> \o Split(SubSeq(s, Len(first) + 2, Len(s)))

AllDigits(s) == \A i \in 1 .. Len(s) : IsDigit(s[i])

AllZeros(s) == \A i \in 1 .. Len(s) : s[i] = "0"

\* Number(token) for tokens written with spaces, a sign, decimal digits and a
\* decimal point: white space is trimmed, the empty string is 0, a decimal
\* literal is its value (a number with a fractional part is kept as a record
\* of its digits), anything else is NaN
Number(token) ==
  LET t     == TrimRight(TrimLeft(token))
      neg   == t # <<>> /\ Head(t) = "-"
      body  == IF t # <<>> /\ Head(t) \in {"-", "+"} THEN Tail(t) ELSE t
      whole == DigitPrefix(body)
      rest  == SubSeq(body, Len(whole) + 1, Len(body))
      frac  == IF rest # <<>> /\ Head(rest) = "." THEN Tail(rest) ELSE <<>>
      sign  == IF neg THEN 0 - 1 ELSE 1
  IN  IF t = <<>> THEN [nan |-> FALSE, val |-> 0]
      ELSE IF body = <<>> \/ body = <<".">> THEN [nan |-> TRUE, val |-> 0]
      ELSE IF rest = <<>> \/ (Head(rest) = "." /\ AllDigits(frac) /\ AllZeros(frac))
           THEN [nan |-> FALSE, val |-> sign * DigitsValue(whole)]
      ELSE IF Head(rest) = "." /\ AllDigits(frac)
           THEN [nan |-> FALSE,
                 val |-> [neg |-> neg, whole |-> DigitsValue(whole), frac |-> frac]]
      ELSE [nan |-> TRUE, val |-> 0]

\* line 23: arg.split(",").map(Number)
FacesOf(arg) == LET ts == Split(arg) IN [k \in 1 .. Len(ts) |-> Number(ts[k])]

\* line 24: faces.some(isNaN)
SomeNaN(faces) == \E k \in 1 .. Len(faces) : isNaN(faces[k])

\* parseDice with the least number of dice as a parameter
parseDiceAtLeast(args, least) ==
  IF Len(args) < least
  THEN [ok |-> FALSE, error |-> "count", index |-> 0, dice |-> <<>>]
  ELSE LET bad == {i \in 1 .. Len(args) : SomeNaN(FacesOf(args[i]))}
       IN  IF bad # {}
           THEN [ok |-> FALSE, error |-> "not_integers",
                 index |-> CHOOSE i \in bad : \A j \in bad : i <= j, dice |-> <<>>]
           ELSE [ok |-> TRUE, error |-> "", index |-> 0,
                 dice |-> [i \in 1 .. Len(args) |->
                             [k \in 1 .. Len(FacesOf(args[i])) |-> FacesOf(args[i])[k].val]]]

\* parseDice that is content with two dice
parseDice_TwoDice(args) == parseDiceAtLeast(args, 2)

\* DiceParser.parseDice(args), lines 15-33: the dice, or the Error thrown
parseDice(args) == parseDiceAtLeast(args, 3)

\* faces.join(","), as lines 162, 188 and 195 print a die: the argument that
\* a die of non-negative integer faces is written as
RECURSIVE Join(_)
Join(faces) ==
  IF faces = <<>> THEN <<>>
  ELSE IF Len(faces) = 1 THEN ToString(faces[1])
  ELSE ToString(faces[1]) \o <<",">> \o Join(Tail(faces))

ArgsOf(ds) == [i \in 1 .. Len(ds) |-> Join(ds[i])]

----------------------------------------------------------------------------
(* The transcript: one record per console.log line, prompt or line read *)

EvWelcome == [t |-> "welcome"]                       \* lines 148-149
EvFirstIntro == [t |-> "first_intro"]                \* line 114
EvHmac(hi, h) == [t |-> "hmac", lo |-> 0, hi |-> hi, hmac |-> h]   \* lines 116, 203, 250
EvPrompt(at, range) == [t |-> "prompt", at |-> at, range |-> range]
EvInput(line) == [t |-> "input", line |-> line]
EvError(e, index) == [t |-> "error", error |-> e, index |-> index]   \* line 315
EvBye == [t |-> "bye"]                               \* "Thanks for playing!"
EvInvalid == [t |-> "invalid"]                       \* lines 130, 183, 230, 277
EvReveal(num, key) == [t |-> "reveal", num |-> num, key |-> key]   \* lines 134, 234, 281
EvFirst(user) == [t |-> "first", user |-> user]      \* lines 139, 142
EvTable(m) == [t |-> "table", probabilities |-> m]   \* ProbabilityTable.display
EvChose(who, faces) == [t |-> "chose", who |-> who, faces |-> faces]   \* lines 187, 194
EvThrowTime(who) == [t |-> "throw_time", who |-> who]                  \* lines 198, 247
EvResult(a, b, r, m) == [t |-> "result", a |-> a, b |-> b, result |-> r, mod |-> m]  \* lines 240, 286
EvThrow(who, face) == [t |-> "throw", who |-> who, face |-> face]      \* lines 245, 291
EvOutcome(winner) == [t |-> "outcome", winner |-> winner]              \* lines 294, 296, 298

NoHmac == [key |-> NULL, msg |-> <<>>]   \* no commitment in scope

----------------------------------------------------------------------------
(* The lines the player can type *)

\* what can be typed at a prompt with the menu entries 0 .. range-1: exit in
\* either case, the help sign, a negative number, a number followed by
\* letters, every menu entry and the number one past the last entry; at the
\* die prompt, where the help sign is not a bad line, also a letter
Lines(at, range) ==
  {<<"X">>, <<"x">>, <<"?">>, <<"-", "1">>, <<"1", "x">>}
    \cup {ToString(i) : i \in 0 .. range}
    \cup (IF at = "dice" THEN {<<"a">>} ELSE {})

----------------------------------------------------------------------------
(* Conditions of Game.determineFirstMove and Game.play *)

\* the exit test that only knows the capital letter
isExit_UpperOnly(line) == line = <<"X">>

\* lines 123, 166, 219, 266
isExit(line) == line = <<"X">> \/ line = <<"x">>

\* the help test that waits for the word of the welcome message
isHelp_Word(line) == line = <<"h", "e", "l", "p">>

\* line 171
isHelp(line) == line = <<"?">>

\* the guess test without its isNaN part
invalidGuess_NoNaN(n) == (~isNaN(n)) /\ (n.val < 0 \/ n.val > 1)

\* line 129
invalidGuess(n) == isNaN(n) \/ n.val < 0 \/ n.val > 1

\* the first-move decision turned around
guessedCorrectly_Inverted(userGuess, committed) ==
  (~isNaN(userGuess)) /\ userGuess.val # committed

\* line 138: userGuess === randomNumber (NaN equals nothing)
guessedCorrectly(userGuess, committed) ==
  (~isNaN(userGuess)) /\ userGuess.val = committed

\* the index test with an off-by-one upper bound
invalidIndex_OffByOne(n, length) == isNaN(n) \/ n.val < 0 \/ n.val > length

\* lines 178-182, 225-229, 272-276
invalidIndex(n, length) == isNaN(n) \/ n.val < 0 \/ n.val >= length

\* the host's throw committed over the player's die
computerThrowMax_UserDie(ds, u, c) == Len(ds[u + 1])

\* line 201: the range of the commitment of the host's throw
computerThrowMax(ds, u, c) == Len(ds[c + 1])

\* the player's throw committed over the host's die
userThrowMax_ComputerDie(ds, u, c) == Len(ds[c + 1])

\* line 249: the range of the commitment of the player's throw
userThrowMax(ds, u, c) == Len(ds[u + 1])

\* the sum that leaves the contribution out
ModResult_IgnoreContribution(a, b, length) == a % length

\* the sum taken as a product
ModResult_Product(a, b, length) == (a * b) % length

\* lines 237-239, 284-285
ModResult(a, b, length) == (a + b) % length

\* the comparison with its two messages exchanged
Compare_Swapped(userRoll, cRoll) ==
  IF userRoll > cRoll THEN "computer"
  ELSE IF userRoll < cRoll THEN "user" ELSE "tie"

\* lines 293-299
Compare(userRoll, cRoll) ==
  IF userRoll > cRoll THEN "user"
  ELSE IF userRoll < cRoll THEN "computer" ELSE "tie"

\* line 287: the template literal is tagged with the identifier o, which no
\* scope of script.js declares; evaluating the tag throws a ReferenceError
o_IsDeclared == FALSE

----------------------------------------------------------------------------
(* Initial states *)

\* three dice with 2, 1 and 3 faces
SmallDice == <<<<2, 4>>, <<3>>, <<1, 3, 5>>>>

\* the dice of the end-to-end scenario
ConstDice == <<<<1, 1, 1, 1, 1, 1>>, <<0, 0, 0, 0, 0, 0>>, <<2, 2, 2, 2, 2, 2>>>>

\* the three dice of the classical cycle
ClassicDice == <<<<2, 2, 4, 4, 9, 9>>, <<6, 8, 1, 1, 8, 6>>, <<7, 5, 3, 7, 5, 3>>>>

\* four dice of four sizes, with and without common faces
FourDice == <<<<1>>, <<1, 2>>, <<2, 2, 3>>, <<0, 5, 5, 7>>>>

\* the dice sets whose probability table is examined
TableDiceSets == {ClassicDice, SmallDice, ConstDice, FourDice}

\* the state in which main() starts, for a set of command lines
InitWith(argvs) ==
  /\ argv \in argvs
  /\ dice = <<>>
  /\ secretKey = NULL
  /\ randomBytesCalls = 0
  /\ pc = "start"
  /\ userGoesFirst = UNSET
  /\ userDiceIndex = NONE
  /\ computerDiceIndex = NONE
  /\ randomNumber = NONE
  /\ hmac = NoHmac
  /\ computerRoll = NONE
  /\ out = <<>>
  /\ reads = 0

\* the command line of the dice ds, and the same without its last die
WithAndWithoutLast(ds) == {ArgsOf(ds), SubSeq(ArgsOf(ds), 1, Len(ds) - 1)}

Init == InitWith(WithAndWithoutLast(SmallDice))

InitConst == InitWith(WithAndWithoutLast(ConstDice))

\* arguments a command line is made of: 1,2  3  1.5  the empty string  1,x  1,,2
ArgChoices ==
  { <<"1", ",", "2">>, <<"3">>, <<"1", ".", "5">>, <<>>,
    <<"1", ",", "x">>, <<"1", ",", ",", "2">> }

\* every command line of at most MaxArgs such arguments
InitArgs ==
  InitWith(UNION {[1 .. n -> ArgChoices] : n \in 0 .. MaxArgs})

InitTable == InitWith({ArgsOf(ds) : ds \in TableDiceSets})

----------------------------------------------------------------------------
(* Game.determineFirstMove *)

\* lines 114-121: commit over 0..1, print the digest, ask for the guess
FirstMoveCommit(prefix) ==
  \E num \in generateUniformRandom(2) :
    LET g == generateRandom(secretKey, randomBytesCalls + 1, num)
    IN  /\ secretKey' = g.secretKey
        /\ randomBytesCalls' = randomBytesCalls + 1
        /\ randomNumber' = g.randomNumber
        /\ hmac' = g.hmac
        /\ out' = prefix \o <<EvFirstIntro, EvHmac(1, g.hmac), EvPrompt("first", 2)>>
        /\ pc' = "first_prompt"

\* main, lines 310-313, with parseDice returning: the Game is built and
\* play() runs, lines 148-156, up to the first prompt of determineFirstMove
Start ==
  /\ pc = "start"
  /\ parseDice(argv).ok
  /\ dice' = parseDice(argv).dice
  /\ FirstMoveCommit(out \o <<EvWelcome>>)
  /\ UNCHANGED <<argv, userGoesFirst, userDiceIndex, computerDiceIndex, computerRoll, reads>>

\* main, lines 310-316, with parseDice throwing: the catch prints the message
MainError ==
  /\ pc = "start"
  /\ ~parseDice(argv).ok
  /\ out' = out \o <<EvError(parseDice(argv).error, parseDice(argv).index)>>
  /\ pc' = "failed"
  /\ UNCHANGED <<argv, dice, secretKey, randomBytesCalls, userGoesFirst, userDiceIndex,
                 computerDiceIndex, randomNumber, hmac, computerRoll, reads>>

\* lines 123-126: exit at the guess prompt, process.exit(0)
FirstMoveExit ==
  /\ pc = "first_prompt" /\ reads < MaxReads
  /\ \E line \in Lines("first", 2) :
       /\ isExit(line)
       /\ out' = out \o <<EvInput(line), EvBye>>
  /\ pc' = "exited"
  /\ reads' = reads + 1
  /\ UNCHANGED <<argv, dice, secretKey, randomBytesCalls, userGoesFirst, userDiceIndex,
                 computerDiceIndex, randomNumber, hmac, computerRoll>>

\* lines 128-132: a bad guess, determineFirstMove calls itself
FirstMoveInvalid ==
  /\ pc = "first_prompt" /\ reads < MaxReads
  /\ \E line \in Lines("first", 2) :
       /\ ~isExit(line)
       /\ invalidGuess(parseInt(line))
       /\ FirstMoveCommit(out \o <<EvInput(line), EvInvalid>>)
  /\ reads' = reads + 1
  /\ UNCHANGED <<argv, dice, userGoesFirst, userDiceIndex, computerDiceIndex, computerRoll>>

\* lines 134-144 and play() lines 156-164: reveal, decide, first die prompt
FirstMoveGuess ==
  /\ pc = "first_prompt" /\ reads < MaxReads
  /\ \E line \in Lines("first", 2) :
       LET userGuess == parseInt(line)
       IN  /\ ~isExit(line)
           /\ ~invalidGuess(userGuess)
           /\ userGoesFirst' = guessedCorrectly(userGuess, randomNumber)
           /\ out' = out \o <<EvInput(line),
                              EvReveal(randomNumber, getSecretKey(secretKey)),
                              EvFirst(userGoesFirst'),
                              EvPrompt("dice", Len(dice))>>
  /\ pc' = "dice_prompt"
  /\ randomNumber' = NONE
  /\ hmac' = NoHmac
  /\ reads' = reads + 1
  /\ UNCHANGED <<argv, dice, secretKey, randomBytesCalls, userDiceIndex, computerDiceIndex,
                 computerRoll>>

----------------------------------------------------------------------------
(* Game.play: the die-choice prompt, lines 158-196 *)

\* the consts of a loop iteration go out of scope
IterationLocalsReset ==
  /\ userDiceIndex' = NONE
  /\ computerDiceIndex' = NONE
  /\ randomNumber' = NONE
  /\ hmac' = NoHmac
  /\ computerRoll' = NONE

\* lines 166-169 and 302: exit at the die prompt, break, rl.close()
DiceExit ==
  /\ pc = "dice_prompt" /\ reads < MaxReads
  /\ \E line \in Lines("dice", Len(dice)) :
       /\ isExit(line)
       /\ out' = out \o <<EvInput(line), EvBye>>
  /\ pc' = "closed"
  /\ reads' = reads + 1
  /\ IterationLocalsReset
  /\ UNCHANGED <<argv, dice, secretKey, randomBytesCalls, userGoesFirst>>

\* lines 171-175: help, the probability table, continue
DiceHelp ==
  /\ pc = "dice_prompt" /\ reads < MaxReads
  /\ \E line \in Lines("dice", Len(dice)) :
       /\ ~isExit(line)
       /\ isHelp(line)
       /\ out' = out \o <<EvInput(line), EvTable(calculate(dice)),
                          EvPrompt("dice", Len(dice))>>
  /\ pc' = "dice_prompt"
  /\ reads' = reads + 1
  /\ IterationLocalsReset
  /\ UNCHANGED <<argv, dice, secretKey, randomBytesCalls, userGoesFirst>>

\* lines 177-185: a bad die index, continue
DiceInvalid ==
  /\ pc = "dice_prompt" /\ reads < MaxReads
  /\ \E line \in Lines("dice", Len(dice)) :
       /\ ~isExit(line)
       /\ ~isHelp(line)
       /\ invalidIndex(parseInt(line), Len(dice))
       /\ out' = out \o <<EvInput(line), EvInvalid, EvPrompt("dice", Len(dice))>>
  /\ pc' = "dice_prompt"
  /\ reads' = reads + 1
  /\ IterationLocalsReset
  /\ UNCHANGED <<argv, dice, secretKey, randomBytesCalls, userGoesFirst>>

\* lines 187-217: the player's die, the host's die, the commitment of the
\* host's throw, its digest, the prompt for the player's number
DiceChoose ==
  /\ pc = "dice_prompt" /\ reads < MaxReads
  /\ \E line \in Lines("dice", Len(dice)) :
       LET n == parseInt(line)
       IN  /\ ~isExit(line)
           /\ ~isHelp(line)
           /\ ~invalidIndex(n, Len(dice))
           /\ \E c \in generateUniformRandom(Len(dice)) :
                LET max == computerThrowMax(dice, n.val, c)
                IN  \E num \in generateUniformRandom(max) :
                      LET g == generateRandom(secretKey, randomBytesCalls + 1, num)
                      IN  /\ userDiceIndex' = n.val
                          /\ computerDiceIndex' = c
                          /\ secretKey' = g.secretKey
                          /\ randomNumber' = g.randomNumber
                          /\ hmac' = g.hmac
                          /\ out' = out \o <<EvInput(line),
                                             EvChose("user", dice[n.val + 1]),
                                             EvChose("computer", dice[c + 1]),
                                             EvThrowTime("computer"),
                                             EvHmac(Len(dice[c + 1]) - 1, g.hmac),
                                             EvPrompt("host_mod", Len(dice[c + 1]))>>
  /\ randomBytesCalls' = randomBytesCalls + 1
  /\ pc' = "host_prompt"
  /\ reads' = reads + 1
  /\ UNCHANGED <<argv, dice, userGoesFirst, computerRoll>>

----------------------------------------------------------------------------
(* Game.play: the host's throw, lines 219-264 *)

\* lines 219-222 and 302
HostExit ==
  /\ pc = "host_prompt" /\ reads < MaxReads
  /\ \E line \in Lines("host_mod", Len(dice[computerDiceIndex + 1])) :
       /\ isExit(line)
       /\ out' = out \o <<EvInput(line), EvBye>>
  /\ pc' = "closed"
  /\ reads' = reads + 1
  /\ IterationLocalsReset
  /\ UNCHANGED <<argv, dice, secretKey, randomBytesCalls, userGoesFirst>>

\* lines 224-232: a bad number, continue: the loop starts over at line 159
HostInvalid ==
  /\ pc = "host_prompt" /\ reads < MaxReads
  /\ \E line \in Lines("host_mod", Len(dice[computerDiceIndex + 1])) :
       /\ ~isExit(line)
       /\ invalidIndex(parseInt(line), Len(dice[computerDiceIndex + 1]))
       /\ out' = out \o <<EvInput(line), EvInvalid, EvPrompt("dice", Len(dice))>>
  /\ pc' = "dice_prompt"
  /\ reads' = reads + 1
  /\ IterationLocalsReset
  /\ UNCHANGED <<argv, dice, secretKey, randomBytesCalls, userGoesFirst>>

\* lines 234-264: reveal, sum, the host's face, then the commitment of the
\* player's throw, its digest and the prompt
HostNumber ==
  /\ pc = "host_prompt" /\ reads < MaxReads
  /\ \E line \in Lines("host_mod", Len(dice[computerDiceIndex + 1])) :
       LET userNumber == parseInt(line)
           clen       == Len(dice[computerDiceIndex + 1])
           ulen       == Len(dice[userDiceIndex + 1])
       IN  /\ ~isExit(line)
           /\ ~invalidIndex(userNumber, clen)
           /\ LET result == ModResult(randomNumber, userNumber.val, clen)
                  max    == userThrowMax(dice, userDiceIndex, computerDiceIndex)
              IN  \E num \in generateUniformRandom(max) :
                    LET g == generateRandom(secretKey, randomBytesCalls + 1, num)
                    IN  /\ computerRoll' = dice[computerDiceIndex + 1][result + 1]
                        /\ secretKey' = g.secretKey
                        /\ randomNumber' = g.randomNumber
                        /\ hmac' = g.hmac
                        /\ out' = out \o <<EvInput(line),
                                           EvReveal(randomNumber, getSecretKey(secretKey)),
                                           EvResult(randomNumber, userNumber.val, result, clen),
                                           EvThrow("computer", computerRoll'),
                                           EvThrowTime("user"),
                                           EvHmac(ulen - 1, g.hmac),
                                           EvPrompt("user_mod", ulen)>>
  /\ randomBytesCalls' = randomBytesCalls + 1
  /\ pc' = "user_prompt"
  /\ reads' = reads + 1
  /\ UNCHANGED <<argv, dice, userGoesFirst, userDiceIndex, computerDiceIndex>>

----------------------------------------------------------------------------
(* Game.play: the player's throw, lines 266-300 *)

\* lines 266-269 and 302
UserExit ==
  /\ pc = "user_prompt" /\ reads < MaxReads
  /\ \E line \in Lines("user_mod", Len(dice[userDiceIndex + 1])) :
       /\ isExit(line)
       /\ out' = out \o <<EvInput(line), EvBye>>
  /\ pc' = "closed"
  /\ reads' = reads + 1
  /\ IterationLocalsReset
  /\ UNCHANGED <<argv, dice, secretKey, randomBytesCalls, userGoesFirst>>

\* lines 271-279: a bad number, continue: the loop starts over at line 159
UserInvalid ==
  /\ pc = "user_prompt" /\ reads < MaxReads
  /\ \E line \in Lines("user_mod", Len(dice[userDiceIndex + 1])) :
       /\ ~isExit(line)
       /\ invalidIndex(parseInt(line), Len(dice[userDiceIndex + 1]))
       /\ out' = out \o <<EvInput(line), EvInvalid, EvPrompt("dice", Len(dice))>>
  /\ pc' = "dice_prompt"
  /\ reads' = reads + 1
  /\ IterationLocalsReset
  /\ UNCHANGED <<argv, dice, secretKey, randomBytesCalls, userGoesFirst>>

\* lines 281-300: reveal; line 287 then evaluates the tag o of the template
\* literal.  With o undeclared that throws a ReferenceError out of play(),
\* whose promise nothing awaits: the process stops with the round unfinished.
\* Were o declared, lines 284-299 and the next die prompt would follow.
UserNumber ==
  /\ pc = "user_prompt" /\ reads < MaxReads
  /\ \E line \in Lines("user_mod", Len(dice[userDiceIndex + 1])) :
       LET userModNumber == parseInt(line)
           ulen          == Len(dice[userDiceIndex + 1])
           userResult    == ModResult(randomNumber, userModNumber.val, ulen)
           userRoll      == dice[userDiceIndex + 1][userResult + 1]
           shown         == out \o <<EvInput(line),
                                     EvReveal(randomNumber, getSecretKey(secretKey))>>
       IN  /\ ~isExit(line)
           /\ ~invalidIndex(userModNumber, ulen)
           /\ IF o_IsDeclared
              THEN /\ out' = shown \o <<EvResult(randomNumber, userModNumber.val, userResult, ulen),
                                        EvThrow("user", userRoll),
                                        EvOutcome(Compare(userRoll, computerRoll)),
                                        EvPrompt("dice", Len(dice))>>
                   /\ pc' = "dice_prompt"
                   /\ IterationLocalsReset
              ELSE /\ out' = shown
                   /\ pc' = "crashed"
                   /\ UNCHANGED <<userDiceIndex, computerDiceIndex, randomNumber, hmac,
                                  computerRoll>>
  /\ reads' = reads + 1
  /\ UNCHANGED <<argv, dice, secretKey, randomBytesCalls, userGoesFirst>>

----------------------------------------------------------------------------
(* Specifications *)

Next ==
  \/ Start
  \/ MainError
  \/ FirstMoveExit
  \/ FirstMoveInvalid
  \/ FirstMoveGuess
  \/ DiceExit
  \/ DiceHelp
  \/ DiceInvalid
  \/ DiceChoose
  \/ HostExit
  \/ HostInvalid
  \/ HostNumber
  \/ UserExit
  \/ UserInvalid
  \/ UserNumber

\* a game over the dice 2,4  3  1,3,5
Spec == Init /\ [][Next]_vars

\* a game over the dice 1,1,1,1,1,1  0,0,0,0,0,0  2,2,2,2,2,2
SpecConst == InitConst /\ [][Next]_vars

\* the steps of main() up to the first prompt
NextArgs ==
  \/ Start
  \/ MainError

\* main() on every command line of InitArgs
SpecArgs == InitArgs /\ [][NextArgs]_vars

\* the steps of a game in which no die is chosen
NextTable ==
  \/ Start
  \/ FirstMoveExit
  \/ FirstMoveInvalid
  \/ FirstMoveGuess
  \/ DiceExit
  \/ DiceHelp
  \/ DiceInvalid

\* games over each of the dice sets of TableDiceSets, as far as the die
\* prompt and its help
SpecTable == InitTable /\ [][NextTable]_vars

----------------------------------------------------------------------------
(* Reading the transcript *)

Idx == 1 .. Len(out)

IsEv(i, t) == i \in Idx /\ out[i].t = t

ModPrompts == {"host_mod", "user_mod"}

FairPrompts == {"first"} \cup ModPrompts

\* the line is read as a number of 0 .. range-1
NumberIn(line, range) ==
  LET n == parseInt(line) IN (~n.nan) /\ n.val >= 0 /\ n.val < range

\* index of the last digest printed before position i (0 if none)
LastHmacBefore(i) ==
  LET js == {j \in 1 .. (i - 1) : out[j].t = "hmac"}
  IN  IF js = {} THEN 0 ELSE CHOOSE j \in js : \A k \in js : k <= j

Reveals == {i \in Idx : out[i].t = "reveal"}

Hmacs == {i \in Idx : out[i].t = "hmac"}

----------------------------------------------------------------------------
(* C1 *)

\* C1: in every fair-throw resolution the digest is printed right before the
\* prompt for the counterpart's number, and the key and value of a commitment
\* are printed only after that prompt was answered with a number of its range.
C1_DigestPromptReveal ==
  /\ \A p \in Idx :
       (out[p].t = "prompt" /\ out[p].at \in FairPrompts)
         => (p > 1 /\ out[p - 1].t = "hmac" /\ out[p - 1].hi = out[p].range - 1)
  /\ \A j \in Hmacs : \A i \in Reveals :
       (out[j].hmac.key = FromHex(out[i].key))
         => /\ i > j + 2
            /\ out[j + 1].t = "prompt" /\ out[j + 1].at \in FairPrompts
            /\ out[j + 2].t = "input"
            /\ NumberIn(out[j + 2].line, out[j + 1].range)
  /\ \A i \in Reveals : \E j \in Hmacs : out[j].hmac.key = FromHex(out[i].key)

\* the first move, the host's throw and the player's throw have all been revealed
C1_Witness ==
  /\ pc = "crashed"
  /\ Cardinality(Reveals) = 3
  /\ \E i \in Reveals : out[i - 2].at = "first"
  /\ \E i \in Reveals : out[i - 2].at = "host_mod"
  /\ \E i \in Reveals : out[i - 2].at = "user_mod"

----------------------------------------------------------------------------
(* C2 *)

\* C2: the key and value of every reveal are those of the digest printed most
\* recently before it, so that digest is the HMAC of the value under the key;
\* and while a prompt of a resolution is pending the generator still holds the
\* key of the digest on display.
C2_RevealMatchesLastDigest ==
  /\ \A i \in Reveals :
       LET j == LastHmacBefore(i)
       IN  j > 0 /\ out[j].hmac = generateHMAC(FromHex(out[i].key), out[i].num)
  /\ (pc \in {"first_prompt", "host_prompt", "user_prompt"})
       => /\ out[Len(out) - 1].t = "hmac"
          /\ out[Len(out) - 1].hmac = generateHMAC(secretKey, randomNumber)

\* the first move was revealed after a retry, then the host's throw was revealed
C2_Witness ==
  /\ pc = "user_prompt"
  /\ Cardinality(Reveals) = 2
  /\ Cardinality(Hmacs) = 4
  /\ out[6] = EvInvalid

----------------------------------------------------------------------------
(* C3 *)

\* C3: every commitment has a key of its own, and no digest is printed under a
\* key that an earlier reveal disclosed.
C3_FreshKeys ==
  /\ \A j1 \in Hmacs : \A j2 \in Hmacs :
       (j1 # j2) => out[j1].hmac.key # out[j2].hmac.key
  /\ \A j \in Hmacs : \A i \in Reveals :
       (i < j) => FromHex(out[i].key) # out[j].hmac.key
  /\ \A j \in Hmacs : out[j].hmac.key # NULL

\* two keys were revealed and a third commitment was made after them
C3_Witness ==
  /\ Cardinality(Hmacs) >= 3
  /\ \E j \in Hmacs : Cardinality({i \in Reveals : i < j}) >= 2

----------------------------------------------------------------------------
(* C4 *)

\* largest range the sum is examined for
MaxRange == 6

\* the ranges of the dice in play and every range up to MaxRange
Ranges == {Len(dice[k]) : k \in 1 .. Len(dice)} \cup (1 .. MaxRange)

\* C4: for every range and every committed value v the map c -> (v + c) mod
\* range is a bijection of 0 .. range-1, and so is v -> (v + c) mod range for
\* every contribution c; hence in every sum the game printed, each result of
\* the range was reachable by exactly one contribution.  The sum does not
\* depend on the state of the game, so the ranges that no die in play has are
\* examined once, before the game starts.
C4_ModSumBijection ==
  /\ \A r \in (IF pc = "start" THEN Ranges ELSE {Len(dice[k]) : k \in 1 .. Len(dice)}) :
       \A v \in 0 .. (r - 1) :
         /\ {ModResult(v, c, r) : c \in 0 .. (r - 1)} = 0 .. (r - 1)
         /\ {ModResult(c, v, r) : c \in 0 .. (r - 1)} = 0 .. (r - 1)
  /\ \A i \in Idx :
       (out[i].t = "result")
         => \A target \in 0 .. (out[i].mod - 1) :
              Cardinality({c \in 0 .. (out[i].mod - 1) :
                             ModResult(out[i].a, c, out[i].mod) = target}) = 1

\* a host's throw over a die of three faces was resolved by the sum
C4_Witness ==
  /\ pc = "user_prompt"
  /\ out[Len(out) - 4].t = "result"
  /\ out[Len(out) - 4].mod = 3
  /\ out[Len(out) - 4].a = 2 /\ out[Len(out) - 4].b = 2 /\ out[Len(out) - 4].result = 1

----------------------------------------------------------------------------
(* C5 *)

\* C5: in the host's throw the commitment range, the announced range, the
\* bound of the accepted number, the modulus and the die of the face are those
\* of the host's die, and in the player's throw those of the player's die; the
\* committed value and the result index are within the die and the face is a
\* face of it.
C5_OneDiePerThrow ==
  LET n    == Len(out)
      clen == Len(dice[computerDiceIndex + 1])
      ulen == Len(dice[userDiceIndex + 1])
  IN  /\ (pc = "host_prompt")
          => /\ out[n] = EvPrompt("host_mod", clen)
             /\ out[n - 1].t = "hmac" /\ out[n - 1].hi = clen - 1
             /\ out[n - 1].hmac = generateHMAC(secretKey, randomNumber)
             /\ randomNumber \in 0 .. (clen - 1)
             /\ out[n - 3] = EvChose("computer", dice[computerDiceIndex + 1])
             /\ out[n - 4] = EvChose("user", dice[userDiceIndex + 1])
      /\ (pc = "user_prompt")
          => /\ out[n] = EvPrompt("user_mod", ulen)
             /\ out[n - 1].t = "hmac" /\ out[n - 1].hi = ulen - 1
             /\ out[n - 1].hmac = generateHMAC(secretKey, randomNumber)
             /\ randomNumber \in 0 .. (ulen - 1)
             /\ out[n - 4].t = "result" /\ out[n - 4].mod = clen
             /\ out[n - 4].a \in 0 .. (clen - 1)
             /\ out[n - 4].b \in 0 .. (clen - 1)
             /\ out[n - 4].result \in 0 .. (clen - 1)
             /\ out[n - 4].a = out[n - 5].num
             /\ NumberIn(out[n - 6].line, clen)
             /\ out[n - 4].b = parseInt(out[n - 6].line).val
             /\ out[n - 3] = EvThrow("computer", dice[computerDiceIndex + 1][out[n - 4].result + 1])
             /\ computerRoll = out[n - 3].face
             /\ \E k \in 1 .. clen : dice[computerDiceIndex + 1][k] = computerRoll
      /\ (pc = "crashed")
          => /\ out[n].t = "reveal"
             /\ out[n].num \in 0 .. (ulen - 1)
             /\ NumberIn(out[n - 1].line, ulen)
             /\ out[n - 2] = EvPrompt("user_mod", ulen)
      /\ \A i \in Idx : (out[i].t = "result") => out[i].result \in 0 .. (out[i].mod - 1)

\* the host threw a die of three faces and the player holds a die of another size
C5_Witness ==
  /\ pc = "user_prompt"
  /\ Len(dice[computerDiceIndex + 1]) = 3
  /\ Len(dice[userDiceIndex + 1]) = 2
  /\ out[Len(out) - 4].result = 2
  /\ randomNumber = 1

----------------------------------------------------------------------------
(* C6 *)

\* C6: while the first-move prompt is pending exactly one digest has been
\* printed, and the first-move reveal matches the digest printed before the
\* first attempt.
C6_Claim ==
  /\ (pc = "first_prompt") => Cardinality(Hmacs) = 1
  /\ \A i \in Reveals :
       (out[i - 2].at = "first")
         => out[3].hmac = generateHMAC(FromHex(out[i].key), out[i].num)

----------------------------------------------------------------------------
(* C7 *)

\* C7: an invalid line at a modular-contribution prompt is answered by the
\* same prompt, with the commitment, the chosen dice and the host's resolved
\* throw kept.
C7_Claim ==
  \A i \in Idx :
    (/\ out[i].t = "prompt" /\ out[i].at \in ModPrompts
     /\ i + 3 <= Len(out)
     /\ out[i + 2].t = "invalid")
      => /\ out[i + 3] = out[i]
         /\ (i + 3 = Len(out))
              => /\ pc = (IF out[i].at = "host_mod" THEN "host_prompt" ELSE "user_prompt")
                 /\ userDiceIndex # NONE /\ computerDiceIndex # NONE
                 /\ hmac = out[i - 1].hmac
                 /\ (out[i].at = "user_mod") => computerRoll # NONE

----------------------------------------------------------------------------
(* C8 *)

ExitLines == {<<"X">>, <<"x">>}

\* C8: at every prompt the line X or x is answered by the farewell and nothing
\* else: the farewell is the last line of the transcript, the process has
\* ended, and nothing can happen afterwards.
C8_ExitEndsGame ==
  /\ \A i \in Idx :
       (out[i].t = "input" /\ out[i].line \in ExitLines)
         => /\ i + 1 = Len(out)
            /\ out[i + 1] = EvBye
            /\ pc \in {"exited", "closed"}
  /\ \A i \in Idx : (out[i].t = "bye") => i = Len(out)
  /\ (pc \in {"exited", "closed"})
       => /\ out[Len(out)] = EvBye
          /\ out[Len(out) - 1].t = "input" /\ out[Len(out) - 1].line \in ExitLines
          /\ ~ENABLED Next

\* x typed at the player's-throw prompt
C8_Witness ==
  /\ pc = "closed"
  /\ out[Len(out) - 1] = EvInput(<<"x">>)
  /\ out[Len(out) - 2].t = "prompt" /\ out[Len(out) - 2].at = "user_mod"

----------------------------------------------------------------------------
(* C9 *)

\* C9: once the player's-throw prompt of a round got a number of its range,
\* the player's face is printed, then the outcome (the player wins exactly
\* when that face is greater than the host's, the host exactly when it is
\* smaller, a tie otherwise), then the die-choice prompt.
C9_Claim ==
  \A i \in Idx :
    (/\ out[i].t = "prompt" /\ out[i].at = "user_mod"
     /\ i + 1 <= Len(out)
     /\ NumberIn(out[i + 1].line, out[i].range))
      => /\ Len(out) >= i + 6
         /\ out[i + 4].t = "throw" /\ out[i + 4].who = "user"
         /\ out[i + 5].t = "outcome"
         /\ (out[i + 5].winner = "user") <=> (out[i + 4].face > out[i - 3].face)
         /\ (out[i + 5].winner = "computer") <=> (out[i + 4].face < out[i - 3].face)
         /\ (out[i + 5].winner = "tie") <=> (out[i + 4].face = out[i - 3].face)
         /\ out[i + 6] = EvPrompt("dice", Len(dice))

----------------------------------------------------------------------------
(* C10 *)

\* C10: with the dice 1,1,1,1,1,1  0,0,0,0,0,0  2,2,2,2,2,2, a round between
\* die 1 and die 3 in which both prompts got a number of their range reports
\* the holder of die 3 as the winner.
C10_Claim ==
  \A i \in Idx :
    (/\ out[i].t = "prompt" /\ out[i].at = "user_mod"
     /\ i + 1 <= Len(out)
     /\ NumberIn(out[i + 1].line, out[i].range)
     /\ {out[i - 11].faces, out[i - 10].faces} = {ConstDice[1], ConstDice[3]})
      => \E k \in Idx :
           /\ k > i
           /\ out[k].t = "outcome"
           /\ out[k].winner = (IF out[i - 11].faces = ConstDice[3] THEN "user" ELSE "computer")

----------------------------------------------------------------------------
(* C11 *)

\* C11: the first-move commitment is over 0..1, and the message that says who
\* moves first names the player exactly when the number typed equals the
\* committed value revealed just before it, the host exactly when it differs.
C11_FirstMoveByEquality ==
  /\ \A i \in Idx :
       (out[i].t = "first")
         => /\ i > 5
            /\ out[i - 1].t = "reveal" /\ out[i - 1].num \in {0, 1}
            /\ out[i - 2].t = "input" /\ NumberIn(out[i - 2].line, 2)
            /\ out[i - 3] = EvPrompt("first", 2)
            /\ out[i - 4].t = "hmac" /\ out[i - 4].hi = 1
            /\ out[i].user <=> (parseInt(out[i - 2].line).val = out[i - 1].num)
            /\ (~out[i].user) <=> (parseInt(out[i - 2].line).val # out[i - 1].num)
  /\ (pc = "first_prompt") => randomNumber \in {0, 1}
  /\ (pc \in {"dice_prompt", "host_prompt", "user_prompt", "closed", "crashed"})
       => \E i \in Idx : out[i].t = "first" /\ out[i].user = userGoesFirst

\* the guess 1 met the committed value 1, so the player moves first
C11_Witness ==
  /\ pc = "dice_prompt"
  /\ userGoesFirst = TRUE
  /\ \E i \in Idx :
       /\ out[i].t = "first" /\ out[i].user
       /\ out[i - 1].num = 1
       /\ out[i - 2].line = <<"1">>

----------------------------------------------------------------------------
(* C12 *)

Tables == {i \in Idx : out[i].t = "table"}

\* the probability <<wins, total>> is above / below / equal to one half
AboveHalf(q) == 2 * q[1] > q[2]
BelowHalf(q) == 2 * q[1] < q[2]
IsHalf(q) == 2 * q[1] = q[2]

\* C12: every probability table has one row and one column per die and 0.5
\* on its diagonal, and for the dice 2,2,4,4,9,9  6,8,1,1,8,6  7,5,3,7,5,3
\* die 1 beats die 2, die 2 beats die 3 and die 3 beats die 1 in more than
\* half of the 36 face pairs, each reverse matchup is below half, and no die
\* beats both others.
C12_DiagonalAndCycle ==
  \A t \in Tables :
    LET m == out[t].probabilities
        n == Len(dice)
    IN  /\ Len(m) = n
        /\ \A i \in 1 .. n : Len(m[i]) = n /\ IsHalf(m[i][i])
        /\ (dice = ClassicDice)
             => /\ \A i \in 1 .. 3 : \A j \in 1 .. 3 : (i # j) => m[i][j][2] = 36
                /\ AboveHalf(m[1][2]) /\ BelowHalf(m[2][1])
                /\ AboveHalf(m[2][3]) /\ BelowHalf(m[3][2])
                /\ AboveHalf(m[3][1]) /\ BelowHalf(m[1][3])
                /\ \A i \in 1 .. 3 :
                     ~(\A j \in 1 .. 3 : (j # i) => AboveHalf(m[i][j]))

\* the help was asked for in a game over the classical dice
C12_Witness ==
  /\ dice = ClassicDice
  /\ pc = "dice_prompt"
  /\ Tables # {}
  /\ out[Len(out) - 1].t = "table"
  /\ out[Len(out) - 1].probabilities[1][2] = <<20, 36>>

----------------------------------------------------------------------------
(* C13 *)

\* no session has started: nothing but the error was printed, no key was
\* made, no Game holds dice and no prompt is pending
NoSession ==
  /\ pc \in {"start", "failed"}
  /\ dice = <<>>
  /\ secretKey = NULL /\ randomBytesCalls = 0
  /\ reads = 0
  /\ \A i \in Idx : out[i].t = "error"
  /\ Len(out) <= 1

\* C13: with fewer than 3 die arguments main() prints the error about the
\* number of dice once and no session starts: no welcome, no commitment, no
\* digest, no prompt, and nothing can happen after the error.
C13_TooFewDice ==
  (Len(argv) < 3)
    => /\ NoSession
       /\ (pc = "failed") => (out = <<EvError("count", 0)>> /\ ~ENABLED Next)
       /\ (pc = "start") => (out = <<>> /\ ENABLED MainError /\ ~ENABLED Start)

\* two well-formed die arguments were rejected
C13_Witness ==
  /\ Len(argv) = 2
  /\ argv[1] = <<"1", ",", "2">> /\ argv[2] = <<"3">>
  /\ pc = "failed"
  /\ out = <<EvError("count", 0)>>

----------------------------------------------------------------------------
(* C14 *)

\* the token is an integer literal: an optional sign and at least one digit
IsIntegerToken(token) ==
  LET body == IF token # <<>> /\ Head(token) \in {"-", "+"} THEN Tail(token) ELSE token
  IN  body # <<>> /\ AllDigits(body)

\* the argument is the empty string or has a token that is not an integer
MalformedArg(arg) ==
  arg = <<>> \/ \E k \in 1 .. Len(Split(arg)) : ~IsIntegerToken(Split(arg)[k])

\* C14: with 3 or more die arguments of which one has a face that is not an
\* integer (a non-numeric token, a decimal, an empty token) or is the empty
\* string, main() prints a configuration error and no session starts.
C14_Claim ==
  (Len(argv) >= 3 /\ \E i \in 1 .. Len(argv) : MalformedArg(argv[i]))
    => /\ NoSession
       /\ (pc = "failed") => (Len(out) = 1 /\ out[1].error = "not_integers")

----------------------------------------------------------------------------
(* C15 *)

\* the digests printed whose key no reveal has disclosed
Outstanding ==
  {j \in Hmacs : ~\E i \in Reveals : FromHex(out[i].key) = out[j].hmac.key}

\* C15: at most one commitment is outstanding at any time, and a digest is
\* printed only when every earlier commitment has been revealed.
C15_Claim ==
  /\ Cardinality(Outstanding) <= 1
  /\ \A j \in Hmacs : \A k \in Hmacs :
       (k < j) => \E i \in Reveals : i < j /\ FromHex(out[i].key) = out[k].hmac.key

----------------------------------------------------------------------------
(* C16 *)

\* in the host's throw the number added is the one the player typed
HostThrowNumberIsTyped ==
  \A i \in Idx :
    (out[i].t = "result")
      => /\ out[i - 1].t = "reveal" /\ out[i].a = out[i - 1].num
         /\ out[i - 2].t = "input" /\ NumberIn(out[i - 2].line, out[i].mod)
         /\ out[i - 3] = EvPrompt("host_mod", out[i].mod)
         /\ out[i].b = parseInt(out[i - 2].line).val
         /\ out[i].result = (out[i].a + out[i].b) % out[i].mod

\* C16 as claimed: the player contributes in the host's throw, and in the
\* player's throw the number comes from the host, so the player is never
\* asked for one there.
C16_Claim ==
  /\ HostThrowNumberIsTyped
  /\ \A i \in Idx : ~(out[i].t = "prompt" /\ out[i].at = "user_mod")

\* C16 as amended: in both throws the host commits and the number is asked of
\* and typed by the player: the announcement of the player's throw is followed
\* by the digest and a prompt, the game then waits for a line, and the reveal
\* of the player's throw directly follows a typed number of the range.
C16_PlayerContributesInBoth ==
  /\ HostThrowNumberIsTyped
  /\ \A i \in Idx :
       (out[i] = EvThrowTime("user"))
         => /\ out[i + 1].t = "hmac"
            /\ out[i + 2].t = "prompt" /\ out[i + 2].at = "user_mod"
            /\ (i + 2 = Len(out)) => pc = "user_prompt"
            /\ (i + 2 < Len(out)) => out[i + 3].t = "input"
  /\ \A i \in Reveals :
       /\ out[i - 1].t = "input"
       /\ out[i - 2].t = "prompt"
       /\ NumberIn(out[i - 1].line, out[i - 2].range)
  /\ (pc = "user_prompt") => (out[Len(out)].t = "prompt" /\ out[Len(out)].at = "user_mod")

\* the player typed 1 in the host's throw and a number in the player's throw
C16_Witness ==
  /\ pc = "crashed"
  /\ out[Len(out)].t = "reveal"
  /\ out[Len(out) - 1].t = "input"
  /\ out[Len(out) - 2].at = "user_mod"
  /\ \E i \in Idx : out[i].t = "result" /\ out[i].b = 1 /\ out[i].mod = 3

----------------------------------------------------------------------------
(* C17 *)

\* C17: getSecretKey is never called on a generator without a key: every key
\* printed at a reveal is a key that crypto.randomBytes returned to an earlier
\* generateRandom, and whenever a prompt of a resolution is pending, so that
\* a reveal can follow, the generator holds a key.
C17_KeySetBeforeReveal ==
  /\ \A i \in Reveals :
       /\ out[i].key = getSecretKey(FromHex(out[i].key))
       /\ FromHex(out[i].key) # NULL
       /\ FromHex(out[i].key) \in 1 .. randomBytesCalls
       /\ \E j \in Hmacs : j < i
  /\ (pc \in {"first_prompt", "host_prompt", "user_prompt"})
       => (secretKey # NULL /\ randomBytesCalls >= 1)
  /\ (secretKey = NULL) <=> (randomBytesCalls = 0)

\* the first reveal of a game
C17_Witness ==
  /\ pc = "dice_prompt"
  /\ Cardinality(Reveals) = 1
  /\ Cardinality(Hmacs) = 1
  /\ secretKey = 1

----------------------------------------------------------------------------
(* C18 *)

\* C18: a step that reads ? or a line that is no die index at the die-choice
\* prompt prints the table (for ?) or the error message and then the same
\* prompt, and changes nothing else: no die is selected for either party, the
\* generator's key, the number of keys made and the dice are as before, and
\* no digest or reveal is printed.
C18_HelpAndInvalidChangeNothing ==
  [][ (pc = "dice_prompt" /\ Len(out') > Len(out))
        => LET line == out'[Len(out) + 1].line
           IN  (line = <<"?">> \/ (line \notin ExitLines /\ ~NumberIn(line, Len(dice))))
                 => /\ pc' = "dice_prompt"
                    /\ Len(out') = Len(out) + 3
                    /\ SubSeq(out', 1, Len(out)) = out
                    /\ out'[Len(out) + 2].t = (IF line = <<"?">> THEN "table" ELSE "invalid")
                    /\ out'[Len(out) + 3] = out[Len(out)]
                    /\ out'[Len(out) + 3] = EvPrompt("dice", Len(dice))
                    /\ userDiceIndex' = NONE /\ computerDiceIndex' = NONE
                    /\ UNCHANGED <<argv, dice, secretKey, randomBytesCalls, userGoesFirst,
                                   userDiceIndex, computerDiceIndex, randomNumber, hmac,
                                   computerRoll>>
    ]_vars

\* the help and then a bad index were typed at the die-choice prompt
C18_Witness ==
  /\ pc = "dice_prompt"
  /\ Len(out) >= 6
  /\ out[Len(out) - 1] = EvInvalid
  /\ out[Len(out) - 2].t = "input" /\ out[Len(out) - 2].line = <<"3">>
  /\ out[Len(out) - 4].t = "table"
  /\ out[Len(out) - 5] = EvInput(<<"?">>)

----------------------------------------------------------------------------
(* C19 *)

\* the pairs of face positions of dice i and j
FacePairs(i, j) == (1 .. Len(dice[i])) \X (1 .. Len(dice[j]))

\* the face pairs of dice i and j that show the same value
Ties(i, j) == {p \in FacePairs(i, j) : dice[i][p[1]] = dice[j][p[2]]}

\* the dice i and j have a face value in common
ShareFace(i, j) ==
  \E a \in 1 .. Len(dice[i]) : \E b \in 1 .. Len(dice[j]) : dice[i][a] = dice[j][b]

\* C19: in every probability table, for distinct dice i and j the entry is
\* the number of face pairs in which the face of i is strictly greater, over
\* |faces_i| * |faces_j|; the wins of i, the wins of j and the ties add up to
\* all pairs, so the two entries add up to at most 1, and to exactly 1 when
\* and only when the dice share no face value.
C19_TiesForNeither ==
  \A t \in Tables :
    LET m == out[t].probabilities
    IN  \A i \in 1 .. Len(dice) : \A j \in 1 .. Len(dice) :
          (i # j)
            => /\ m[i][j][2] = Len(dice[i]) * Len(dice[j])
               /\ m[j][i][2] = m[i][j][2]
               /\ m[i][j][1] = Cardinality({p \in FacePairs(i, j) :
                                              dice[i][p[1]] > dice[j][p[2]]})
               /\ m[i][j][1] + m[j][i][1] + Cardinality(Ties(i, j)) = m[i][j][2]
               /\ m[i][j][1] + m[j][i][1] <= m[i][j][2]
               /\ (m[i][j][1] + m[j][i][1] = m[i][j][2]) <=> ~ShareFace(i, j)

\* a table over four dice of which some pairs share a face and some do not
C19_Witness ==
  /\ dice = FourDice
  /\ Tables # {}
  /\ ShareFace(2, 3) /\ ~ShareFace(1, 4)
  /\ \E t \in Tables :
       /\ out[t].probabilities[3][2] = <<4, 6>>
       /\ out[t].probabilities[2][3] = <<0, 6>>

====
